---- MODULE Spec2Model ----
(***************************************************************************)
(* A model of buildstream's copy-on-write hardlink mount                   *)
(* (src/buildstream/_fuse/hardlinks.py, class SafeHardlinkOps).            *)
(*                                                                         *)
(* The backing store is a flat tree: directory entries map names to        *)
(* inodes; an inode's link count is the number of entries that name it.    *)
(* Every FUSE request is served by a thread of the mount; a request that   *)
(* runs _ensure_copy takes one step per system call of that routine, so    *)
(* that every interleaving of two requests is a behaviour of the model.    *)
(***************************************************************************)
EXTENDS Integers, FiniteSets, Sequences, TLC

(***************************************************************************)
(* Bounds of the model.                                                    *)
(***************************************************************************)
\* inode slots of the backing filesystem (an allocation beyond it is ENOSPC)
MaxInodes == 5
\* file descriptors the mount process may hold open (beyond it: EMFILE)
MaxFds == 2
\* requests dispatched to the mount in one behaviour of concurrent requests
MaxOps == 2
\* requests dispatched to the mount in one behaviour of SeqSpec
MaxSeqOps == 3
\* storage faults (errors that do not follow from the tree's state) injected
MaxFaults == 1
\* contents of a file: 0 is the empty file, 1 the content of the shared
\* artifact, 2..MaxData what a write may store
MaxData == 2
\* the offsets a read or write request may ask for
MaxOffset == 1
\* characters of a virtual path
MaxPathLen == 5

(***************************************************************************)
(* Program constants: the access-mode bits tested by open().               *)
(***************************************************************************)
O_RDONLY == 0
O_WRONLY == 1
O_RDWR == 2

Threads == {"t1", "t2"}
\* the worker threads are interchangeable: a request goes to the idle worker
\* of least rank
Rank(t) == IF t = "t1" THEN 1 ELSE 2
\* names under MountRoot, reachable through the mount
Names == {"a", "l", "d", "n"}
\* names of the same filesystem outside MountRoot (another tree's hardlink)
External == {"x"}
AllNames == Names \cup External
\* the names the tree starts with: the paths of the requests that need an
\* existing object
Existing == {"a", "l", "d"}
Inodes == 1..MaxInodes
Fds == 1..MaxFds
Data == 0..MaxData
Offsets == 0..MaxOffset
\* "0644": what a newly created file gets; "0755": the mode of the shared
\* artifact; "0600": the mode requested through chmod
Modes == {"0644", "0755", "0600"}
DefaultMode == "0644"
\* the uid of the mount process (owner of everything it creates) and the
\* uid requested through chown
ProcUid == "bst"
Uids == {"bst", "other"}
Flags == {O_RDONLY, O_WRONLY, O_RDWR}

VARIABLES
    dirent,     \* [AllNames -> Inodes \cup {0}]: the directory entries (0: none)
    inodes,     \* [Inodes -> inode record]: the storage objects
    handles,    \* [Fds -> [ino, flags, name, pos]]: descriptors held by the mount
                \* (ino 0: closed); name records the real path the descriptor was
                \* opened at, pos is the descriptor's file offset
    tmpdir,     \* [Threads -> BOOLEAN]: the thread's TemporaryDirectory exists
    staged,     \* [Threads -> Inodes \cup {0}]: the inode at the thread's temp_path
    pc,         \* [Threads -> position of the thread in its request]
    call,       \* [Threads -> the request being served and its locals]
    ret,        \* [Threads -> what the request returned or raised]
    left,       \* requests the callers may still dispatch
    serial,     \* whether the mount infrastructure serves one request at a time
    faults,     \* storage faults injected so far
    sys_platform,       \* sys.platform of the host
    BST_FORCE_BACKEND,  \* the environment variable ("unset": not in the environment)
    instance,   \* Platform._instance ("None" until a platform is resolved)
    got,        \* what the last get_platform() returned or raised
    partial,    \* the virtual path handed to _full_path, a string of characters
    path        \* what _full_path returned for it ("unset" before the call)

fusevars == <<dirent, inodes, handles, tmpdir, staged, pc, call, ret, left, serial, faults>>
platvars == <<sys_platform, BST_FORCE_BACKEND, instance, got>>
pathvars == <<partial, path>>
vars == <<fusevars, platvars, pathvars>>
fsvars == <<dirent, inodes, handles, tmpdir, staged>>

FreeInode == [kind |-> "free", data |-> 0, mode |-> DefaultMode, uid |-> ProcUid,
              target |-> "a", sub |-> 0]
FileInode(d, m) == [kind |-> "file", data |-> d, mode |-> m, uid |-> ProcUid,
                    target |-> "a", sub |-> 0]
Closed == [ino |-> 0, flags |-> O_RDONLY, name |-> "a", pos |-> 0]
\* whether a descriptor opened with these flags may be written to, read from
Writable(flags) == flags % 4 \in {O_WRONLY, O_RDWR}
Readable(flags) == flags % 4 \in {O_RDONLY, O_RDWR}

NoCall == [op |-> "none", path |-> "a", arg |-> "0644", flags |-> 0, real |-> "a",
           fh |-> 0, offset |-> 0, val |-> 0, at |-> 0,
           exc |-> "none", failedAt |-> "none",
           orig |-> 0, odata |-> 0, omode |-> DefaultMode, others |-> {}]

(***************************************************************************)
(* The storage layer: what the system calls used by the mount compute.     *)
(***************************************************************************)
\* the entries that name inode i in dirent table d and staging table s
LinksOf(d, s, i) == {n \in AllNames : d[n] = i} \cup {t \in Threads : s[t] = i}

\* st_nlink of inode i: a directory reports 2 plus its subdirectories
NLink(i) ==
    IF inodes[i].kind = "dir" THEN 2 + inodes[i].sub
    ELSE Cardinality(LinksOf(dirent, staged, i))

\* os.path.realpath: follow symbolic links while the path names one
RECURSIVE RealpathN(_, _)
RealpathN(p, k) ==
    IF k = 0 \/ dirent[p] = 0 THEN p
    ELSE IF inodes[dirent[p]].kind = "symlink"
         THEN RealpathN(inodes[dirent[p]].target, k - 1)
         ELSE p
Realpath(p) == RealpathN(p, Cardinality(Names))

\* the inode a path-following system call (chmod, open) reaches, 0 if none
Lookup(p) ==
    LET r == Realpath(p) IN
    IF dirent[r] = 0 THEN 0
    ELSE IF inodes[dirent[r]].kind = "symlink" THEN 0
    ELSE dirent[r]

FreeInodes == {i \in Inodes : inodes[i].kind = "free"}
NewInode == CHOOSE i \in FreeInodes : \A j \in FreeInodes : i <= j
FreeFds == {f \in Fds : handles[f].ino = 0}
NewFd == CHOOSE f \in FreeFds : \A g \in FreeFds : f <= g

\* the inode table once the objects no entry and no descriptor refers to are
\* released by the filesystem
Collect(d, s, h, ino) ==
    [i \in Inodes |->
        IF ino[i].kind \in {"file", "symlink"}
           /\ LinksOf(d, s, i) = {}
           /\ \A f \in Fds : h[f].ino # i
        THEN FreeInode ELSE ino[i]]

(***************************************************************************)
(* SafeHardlinkOps._ensure_copy, one action per system call.               *)
(***************************************************************************)
\* every finished request has been answered: a handler returns without a
\* further system call, so its reply is taken to leave before any other step
Replied == \A u \in Threads : pc[u] # "done"

InCopy(t) == pc[t] \in {"mkdtemp", "copy", "copystat", "unlink", "rename", "cleanup"}

\* the test of line 80 written as st_nlink < 1: a private file is copied again
NotHardlinkBelowOne(i) == NLink(i) < 1

\* st_nlink <= 1 (line 80): not a hardlink, nothing to copy
NotHardlink(i) == NLink(i) <= 1

\* the test of line 86 left out: a directory is treated like a file
IsDirIgnored(i) == FALSE

\* stat.S_ISDIR(file_stat.st_mode) (line 86): directories are left alone
IsDir(i) == inodes[i].kind = "dir"

\* the except clause of lines 96-99 left out: FileNotFoundError gets through
SwallowedNothing(e) == e = "none"

\* except FileNotFoundError: pass (lines 96-99): the only exception that
\* _ensure_copy does not let through
Swallowed(e) == e \in {"none", "ENOENT"}

\* how _ensure_copy is left with exception e ("none": a normal return): the
\* caller goes on to its own system call, or the exception reaches FUSE
Leave(t, e) ==
    IF Swallowed(e)
    THEN /\ pc' = [pc EXCEPT ![t] = "apply"]
         /\ ret' = ret
    ELSE /\ pc' = [pc EXCEPT ![t] = "done"]
         /\ ret' = [ret EXCEPT ![t] = e]

\* os.stat(real_path, follow_symlinks=False) and the two tests on its result
Stat(t) ==
    /\ pc[t] = "stat"
    /\ Replied
    /\ LET r == call[t].real
           i == dirent[r] IN
       IF i = 0
       THEN \* FileNotFoundError
            /\ Leave(t, "ENOENT")
            /\ call' = [call EXCEPT ![t].failedAt = "stat", ![t].exc = "ENOENT"]
       ELSE IF NotHardlink(i) \/ IsDir(i)
       THEN /\ Leave(t, "none")
            /\ call' = call
       ELSE /\ pc' = [pc EXCEPT ![t] = "mkdtemp"]
            /\ ret' = ret
            /\ call' = [call EXCEPT ![t].orig = i,
                                    ![t].odata = inodes[i].data,
                                    ![t].omode = inodes[i].mode,
                                    ![t].others = {n \in AllNames : dirent[n] = i} \ {r}]
    /\ UNCHANGED <<dirent, inodes, handles, tmpdir, staged, left, serial, platvars, pathvars, faults>>

\* tempfile.TemporaryDirectory(dir=self.tmp): mkdtemp under the scratch directory
Mkdtemp(t) ==
    /\ pc[t] = "mkdtemp"
    /\ Replied
    /\ tmpdir' = [tmpdir EXCEPT ![t] = TRUE]
    /\ pc' = [pc EXCEPT ![t] = "copy"]
    /\ UNCHANGED <<dirent, inodes, handles, staged, call, ret, left, serial, platvars, pathvars, faults>>

\* shutil.copy2, first half (copyfile): create temp_path and copy the bytes
Copy(t) ==
    /\ pc[t] = "copy"
    /\ Replied
    /\ LET src == dirent[call[t].real] IN
       IF src = 0
       THEN /\ pc' = [pc EXCEPT ![t] = "cleanup"]
            /\ call' = [call EXCEPT ![t].failedAt = "copy", ![t].exc = "ENOENT"]
            /\ UNCHANGED <<inodes, staged>>
       ELSE IF inodes[src].kind = "dir"
       THEN /\ pc' = [pc EXCEPT ![t] = "cleanup"]
            /\ call' = [call EXCEPT ![t].failedAt = "copy", ![t].exc = "EISDIR"]
            /\ UNCHANGED <<inodes, staged>>
       ELSE IF FreeInodes = {}
       THEN /\ pc' = [pc EXCEPT ![t] = "cleanup"]
            /\ call' = [call EXCEPT ![t].failedAt = "copy", ![t].exc = "ENOSPC"]
            /\ UNCHANGED <<inodes, staged>>
       ELSE /\ staged' = [staged EXCEPT ![t] = NewInode]
            /\ inodes' = [inodes EXCEPT ![NewInode] =
                            IF inodes[src].kind = "symlink"
                            THEN [inodes[src] EXCEPT !.uid = ProcUid]
                            ELSE FileInode(inodes[src].data, DefaultMode)]
            /\ pc' = [pc EXCEPT ![t] = "copystat"]
            /\ call' = call
    /\ UNCHANGED <<dirent, handles, tmpdir, ret, left, serial, platvars, pathvars, faults>>

\* what copystat transfers from the source to the staged copy
CopiedMode(src) == inodes[src].mode

\* shutil.copy2, second half (copystat): mode bits and timestamps, not the owner
CopyStat(t) ==
    /\ pc[t] = "copystat"
    /\ Replied
    /\ LET src == dirent[call[t].real] IN
       IF src = 0
       THEN /\ pc' = [pc EXCEPT ![t] = "cleanup"]
            /\ call' = [call EXCEPT ![t].failedAt = "copy", ![t].exc = "ENOENT"]
            /\ inodes' = inodes
       ELSE /\ inodes' = [inodes EXCEPT ![staged[t]].mode = CopiedMode(src)]
            /\ pc' = [pc EXCEPT ![t] = "unlink"]
            /\ call' = call
    /\ UNCHANGED <<dirent, handles, tmpdir, staged, ret, left, serial, platvars, pathvars, faults>>

\* os.unlink(real_path)
Unlink(t) ==
    /\ pc[t] = "unlink"
    /\ Replied
    /\ LET r == call[t].real IN
       IF dirent[r] = 0
       THEN /\ pc' = [pc EXCEPT ![t] = "cleanup"]
            /\ call' = [call EXCEPT ![t].failedAt = "unlink", ![t].exc = "ENOENT"]
            /\ UNCHANGED <<dirent, inodes>>
       ELSE IF inodes[dirent[r]].kind = "dir"
       THEN /\ pc' = [pc EXCEPT ![t] = "cleanup"]
            /\ call' = [call EXCEPT ![t].failedAt = "unlink", ![t].exc = "EISDIR"]
            /\ UNCHANGED <<dirent, inodes>>
       ELSE /\ dirent' = [dirent EXCEPT ![r] = 0]
            /\ inodes' = Collect(dirent', staged, handles, inodes)
            /\ pc' = [pc EXCEPT ![t] = "rename"]
            /\ call' = call
    /\ UNCHANGED <<handles, tmpdir, staged, ret, left, serial, platvars, pathvars, faults>>

\* os.rename(temp_path, real_path)
Rename(t) ==
    /\ pc[t] = "rename"
    /\ Replied
    /\ LET r == call[t].real IN
       IF dirent[r] # 0 /\ inodes[dirent[r]].kind = "dir"
       THEN /\ pc' = [pc EXCEPT ![t] = "cleanup"]
            /\ call' = [call EXCEPT ![t].failedAt = "rename", ![t].exc = "EISDIR"]
            /\ UNCHANGED <<dirent, inodes, staged>>
       ELSE /\ dirent' = [dirent EXCEPT ![r] = staged[t]]
            /\ staged' = [staged EXCEPT ![t] = 0]
            /\ inodes' = Collect(dirent', staged', handles, inodes)
            /\ pc' = [pc EXCEPT ![t] = "cleanup"]
            /\ call' = call
    /\ UNCHANGED <<handles, tmpdir, ret, left, serial, platvars, pathvars, faults>>

\* A storage error that the tree's state does not decide, raised by the system
\* call the thread is about to make: no space or access denied ("EIO" stands
\* for every OSError that is not FileNotFoundError), a scratch directory on
\* another filesystem (rename), a scratch directory that is missing (mkdtemp
\* raises FileNotFoundError, "ENOENT").  Raised before the TemporaryDirectory
\* exists, the error leaves _ensure_copy at once; raised inside the with
\* block, it passes through the block's cleanup first.
Fault(t, at, e) ==
    /\ pc[t] = at
    /\ Replied
    /\ faults < MaxFaults
    /\ faults' = faults + 1
    /\ call' = [call EXCEPT ![t].failedAt = IF at = "copystat" THEN "copy" ELSE at,
                            ![t].exc = e]
    /\ IF at # "mkdtemp"
       THEN /\ pc' = [pc EXCEPT ![t] = "cleanup"]
            /\ ret' = ret
       ELSE Leave(t, e)
    /\ UNCHANGED <<dirent, inodes, handles, tmpdir, staged, left, serial, platvars, pathvars>>

MkdtempFault(t) == \E e \in {"ENOENT", "EIO"} : Fault(t, "mkdtemp", e)
CopyFault(t) == \E at \in {"copy", "copystat"} : Fault(t, at, "EIO")
UnlinkFault(t) == Fault(t, "unlink", "EIO")
RenameFault(t) == Fault(t, "rename", "EIO")

\* the with block left without its cleanup: what was staged stays
StagedKept(s, t) == s

\* the staging table once thread t's TemporaryDirectory is removed with what
\* it holds (TemporaryDirectory.__exit__, on every way out of the with block)
StagedRemoved(s, t) == [s EXCEPT ![t] = 0]

\* leaving the with block: the TemporaryDirectory and what it still holds are
\* removed; then the pending exception, if any, goes to the except clause
Cleanup(t) ==
    /\ pc[t] = "cleanup"
    /\ Replied
    /\ staged' = StagedRemoved(staged, t)
    /\ tmpdir' = [tmpdir EXCEPT ![t] = FALSE]
    /\ inodes' = Collect(dirent, staged', handles, inodes)
    /\ Leave(t, call[t].exc)
    /\ UNCHANGED <<dirent, handles, call, left, serial, platvars, pathvars, faults>>

(***************************************************************************)
(* The FUSE methods.                                                       *)
(***************************************************************************)
Dispatch(t, c, first) ==
    /\ pc[t] = "idle"
    /\ Replied
    /\ \A u \in Threads : pc[u] = "idle" => Rank(t) <= Rank(u)
    /\ serial => \A u \in Threads : pc[u] = "idle"
    /\ left > 0
    /\ left' = left - 1
    /\ pc' = [pc EXCEPT ![t] = first]
    /\ call' = [call EXCEPT ![t] = c]

\* chmod's check made on the path itself, as chown's is
ChmodTargetNoFollow(p) == p

\* the path chmod's identity check is made on: _ensure_copy(full_path), with
\* follow_symlinks left at its default True (lines 69-73, 113)
ChmodTarget(p) == Realpath(p)

\* chmod(path, mode): _full_path, then _ensure_copy(full_path)
ChmodCall(t) ==
    \E p \in Existing, m \in {"0600"} :
        /\ Dispatch(t, [NoCall EXCEPT !.op = "chmod", !.path = p, !.arg = m,
                                      !.real = ChmodTarget(p)], "stat")
        /\ UNCHANGED <<dirent, inodes, handles, tmpdir, staged, ret, serial, platvars, pathvars, faults>>

\* os.chmod(full_path, mode)
ChmodApply(t) ==
    /\ pc[t] = "apply"
    /\ Replied
    /\ call[t].op = "chmod"
    /\ LET i == Lookup(call[t].path) IN
       IF i = 0
       THEN /\ ret' = [ret EXCEPT ![t] = "ENOENT"]
            /\ inodes' = inodes
       ELSE /\ ret' = [ret EXCEPT ![t] = "ok"]
            /\ inodes' = [inodes EXCEPT ![i].mode = call[t].arg]
    /\ pc' = [pc EXCEPT ![t] = "done"]
    /\ UNCHANGED <<dirent, handles, tmpdir, staged, call, left, serial, platvars, pathvars, faults>>

\* chown(path, uid, gid): _ensure_copy(full_path, follow_symlinks=False)
ChownCall(t) ==
    \E p \in Existing, u \in {"other"} :
        /\ Dispatch(t, [NoCall EXCEPT !.op = "chown", !.path = p, !.arg = u,
                                      !.real = p], "stat")
        /\ UNCHANGED <<dirent, inodes, handles, tmpdir, staged, ret, serial, platvars, pathvars, faults>>

\* os.chown(full_path, uid, gid, follow_symlinks=False)
ChownApply(t) ==
    /\ pc[t] = "apply"
    /\ Replied
    /\ call[t].op = "chown"
    /\ LET i == dirent[call[t].path] IN
       IF i = 0
       THEN /\ ret' = [ret EXCEPT ![t] = "ENOENT"]
            /\ inodes' = inodes
       ELSE /\ ret' = [ret EXCEPT ![t] = "ok"]
            /\ inodes' = [inodes EXCEPT ![i].uid = call[t].arg]
    /\ pc' = [pc EXCEPT ![t] = "done"]
    /\ UNCHANGED <<dirent, handles, tmpdir, staged, call, left, serial, platvars, pathvars, faults>>

\* the test of line 194 left out: every open ensures a copy
WriteCapableAlways(flags) == TRUE

\* flags & os.O_WRONLY or flags & os.O_RDWR (hardlinks.py:194)
WriteCapable(flags) ==
    \/ (flags \div O_WRONLY) % 2 = 1
    \/ (flags \div O_RDWR) % 2 = 1

\* open(path, flags): _ensure_copy only when opening for writing
OpenCall(t) ==
    \E p \in Existing, f \in Flags :
        /\ Dispatch(t, [NoCall EXCEPT !.op = "open", !.path = p, !.flags = f,
                                      !.real = IF WriteCapable(f) THEN Realpath(p) ELSE p],
                    IF WriteCapable(f) THEN "stat" ELSE "apply")
        /\ UNCHANGED <<dirent, inodes, handles, tmpdir, staged, ret, serial, platvars, pathvars, faults>>

\* os.open(full_path, flags)
OpenApply(t) ==
    /\ pc[t] = "apply"
    /\ Replied
    /\ call[t].op = "open"
    /\ LET i == Lookup(call[t].path)
           w == Writable(call[t].flags) IN
       IF i = 0 \/ (inodes[i].kind = "dir" /\ w) \/ FreeFds = {}
       THEN /\ ret' = [ret EXCEPT ![t] = IF i = 0 THEN "ENOENT"
                                         ELSE IF inodes[i].kind = "dir" THEN "EISDIR"
                                         ELSE "EMFILE"]
            /\ UNCHANGED <<handles, call>>
       ELSE /\ handles' = [handles EXCEPT ![NewFd] =
                              [ino |-> i, flags |-> call[t].flags,
                               name |-> Realpath(call[t].path), pos |-> 0]]
            /\ call' = [call EXCEPT ![t].fh = NewFd]
            /\ ret' = [ret EXCEPT ![t] = "ok"]
    /\ pc' = [pc EXCEPT ![t] = "done"]
    /\ UNCHANGED <<dirent, inodes, tmpdir, staged, left, serial, platvars, pathvars, faults>>

\* create(path, mode, fi): _ensure_copy unconditionally; the flags the kernel
\* sends with a create request are O_CREAT | O_WRONLY
CreateCall(t) ==
    \E p \in Names, m \in {"0644"} :
        /\ Dispatch(t, [NoCall EXCEPT !.op = "create", !.path = p, !.arg = m,
                                      !.flags = O_WRONLY, !.real = Realpath(p)], "stat")
        /\ UNCHANGED <<dirent, inodes, handles, tmpdir, staged, ret, serial, platvars, pathvars, faults>>

\* os.open(full_path, fi, mode): opens the file, creating it when it is missing
CreateApply(t) ==
    /\ pc[t] = "apply"
    /\ Replied
    /\ call[t].op = "create"
    /\ LET r == Realpath(call[t].path)
           i == dirent[r] IN
       IF i # 0 /\ inodes[i].kind = "dir"
       THEN /\ ret' = [ret EXCEPT ![t] = "EISDIR"]
            /\ UNCHANGED <<dirent, inodes, handles, call>>
       ELSE IF FreeFds = {}
       THEN /\ ret' = [ret EXCEPT ![t] = "EMFILE"]
            /\ UNCHANGED <<dirent, inodes, handles, call>>
       ELSE IF i = 0 /\ FreeInodes = {}
       THEN /\ ret' = [ret EXCEPT ![t] = "ENOSPC"]
            /\ UNCHANGED <<dirent, inodes, handles, call>>
       ELSE LET j == IF i = 0 THEN NewInode ELSE i IN
            /\ dirent' = [dirent EXCEPT ![r] = j]
            /\ inodes' = IF i = 0
                         THEN [inodes EXCEPT ![j] = FileInode(0, call[t].arg)]
                         ELSE inodes
            /\ handles' = [handles EXCEPT ![NewFd] = [ino |-> j, flags |-> call[t].flags,
                                                           name |-> r, pos |-> 0]]
            /\ call' = [call EXCEPT ![t].fh = NewFd]
            /\ ret' = [ret EXCEPT ![t] = "ok"]
    /\ pc' = [pc EXCEPT ![t] = "done"]
    /\ UNCHANGED <<tmpdir, staged, left, serial, platvars, pathvars, faults>>

\* a descriptor the caller holds: open, and the open or create that made it
\* has returned
Held(f) ==
    /\ handles[f].ino # 0
    /\ \A u \in Threads : ~(pc[u] = "done" /\ call[u].op \in {"open", "create"}
                                             /\ call[u].fh = f)

\* write(path, data, offset, fh): the request; its two system calls follow
Write(t) ==
    \E f \in Fds, v \in Data \ {0, 1}, o \in Offsets :
        /\ Held(f)
        /\ Dispatch(t, [NoCall EXCEPT !.op = "write", !.fh = f, !.val = v,
                                      !.offset = o], "lseek")
        /\ UNCHANGED <<dirent, inodes, handles, tmpdir, staged, ret, serial, platvars, pathvars, faults>>

\* read(path, size, offset, fh): the request; its two system calls follow
Read(t) ==
    \E f \in Fds, o \in Offsets :
        /\ Held(f)
        /\ Dispatch(t, [NoCall EXCEPT !.op = "read", !.fh = f, !.offset = o], "lseek")
        /\ UNCHANGED <<dirent, inodes, handles, tmpdir, staged, ret, serial, platvars, pathvars, faults>>

\* os.lseek(fh, offset, os.SEEK_SET): the descriptor's offset is set
Lseek(t) ==
    /\ pc[t] = "lseek"
    /\ Replied
    /\ LET f == call[t].fh IN
       IF inodes[handles[f].ino].kind = "dir"
       THEN \* a descriptor on a directory: read(2) fails
            /\ handles' = handles
            /\ pc' = [pc EXCEPT ![t] = "done"]
            /\ ret' = [ret EXCEPT ![t] = "EISDIR"]
       ELSE /\ handles' = [handles EXCEPT ![f].pos = call[t].offset]
            /\ pc' = [pc EXCEPT ![t] = "transfer"]
            /\ ret' = ret
    /\ UNCHANGED <<dirent, inodes, tmpdir, staged, call, left, serial, platvars, pathvars, faults>>

\* os.write(fh, data): the bytes go where the descriptor's offset stands,
\* and the offset moves past them
WriteFd(t) ==
    /\ pc[t] = "transfer"
    /\ Replied
    /\ call[t].op = "write"
    /\ LET f == call[t].fh IN
       IF Writable(handles[f].flags)
       THEN /\ inodes' = [inodes EXCEPT ![handles[f].ino].data = call[t].val]
            /\ handles' = [handles EXCEPT ![f].pos = @ + 1]
            /\ call' = [call EXCEPT ![t].at = handles[f].pos]
            /\ ret' = [ret EXCEPT ![t] = "ok"]
       ELSE /\ UNCHANGED <<inodes, handles, call>>
            /\ ret' = [ret EXCEPT ![t] = "EBADF"]
    /\ pc' = [pc EXCEPT ![t] = "done"]
    /\ UNCHANGED <<dirent, tmpdir, staged, left, serial, platvars, pathvars, faults>>

\* os.read(fh, size): the bytes come from where the descriptor's offset
\* stands, and the offset moves past them
ReadFd(t) ==
    /\ pc[t] = "transfer"
    /\ Replied
    /\ call[t].op = "read"
    /\ LET f == call[t].fh IN
       IF Readable(handles[f].flags)
       THEN /\ handles' = [handles EXCEPT ![f].pos = @ + 1]
            /\ call' = [call EXCEPT ![t].at = handles[f].pos,
                                    ![t].val = inodes[handles[f].ino].data]
            /\ ret' = [ret EXCEPT ![t] = "ok"]
       ELSE /\ UNCHANGED <<handles, call>>
            /\ ret' = [ret EXCEPT ![t] = "EBADF"]
    /\ pc' = [pc EXCEPT ![t] = "done"]
    /\ UNCHANGED <<dirent, inodes, tmpdir, staged, left, serial, platvars, pathvars, faults>>

\* os.fsync taken to close the descriptor it synchronizes
SyncedClosing(h, f) == [h EXCEPT ![f] = Closed]

\* the descriptor table after os.fsync(fh): the descriptor stays open
Synced(h, f) == h

\* flush(path, fh): os.fsync(fh)
Flush(t) ==
    \E f \in Fds :
        /\ Held(f)
        /\ Dispatch(t, [NoCall EXCEPT !.op = "flush", !.fh = f], "done")
        /\ handles' = Synced(handles, f)
        /\ ret' = [ret EXCEPT ![t] = "ok"]
        /\ UNCHANGED <<dirent, inodes, tmpdir, staged, serial, platvars, pathvars, faults>>

\* fsync(path, datasync, fh): self.flush(path, fh)
Fsync(t) ==
    \E f \in Fds :
        /\ Held(f)
        /\ Dispatch(t, [NoCall EXCEPT !.op = "fsync", !.fh = f], "done")
        /\ handles' = Synced(handles, f)
        /\ ret' = [ret EXCEPT ![t] = "ok"]
        /\ UNCHANGED <<dirent, inodes, tmpdir, staged, serial, platvars, pathvars, faults>>

\* truncate(path, length, fh): open(full_path, 'r+'), truncate, close; no
\* _ensure_copy, and the descriptor fh is not used
Truncate(t) ==
    \E p \in {"a"}, length \in {0} :
        /\ Dispatch(t, [NoCall EXCEPT !.op = "truncate", !.path = p, !.val = length,
                                      !.real = Realpath(p)], "done")
        /\ LET i == Lookup(p) IN
           IF i = 0 \/ inodes[i].kind = "dir" \/ FreeFds = {}
           THEN /\ inodes' = inodes
                /\ ret' = [ret EXCEPT ![t] = IF i = 0 THEN "ENOENT"
                                             ELSE IF inodes[i].kind = "dir" THEN "EISDIR"
                                             ELSE "EMFILE"]
           ELSE /\ inodes' = [inodes EXCEPT ![i].data = length]
                /\ ret' = [ret EXCEPT ![t] = "ok"]
        /\ UNCHANGED <<dirent, handles, tmpdir, staged, serial, platvars, pathvars, faults>>

\* what os.access(full_path, amode) fails with ("none": it returns True):
\* the path is missing, or the file belongs to another user who keeps it
\* to themselves
AccessErrno(p) ==
    LET i == Lookup(p) IN
    IF i = 0 THEN "ENOENT"
    ELSE IF inodes[i].uid # ProcUid /\ inodes[i].mode = "0600" THEN "EACCES"
    ELSE "none"

\* access(path, amode): FuseOSError(errno.EACCES) whenever os.access is false
Access(t) ==
    \E p \in {"a", "n"} :
        /\ Dispatch(t, [NoCall EXCEPT !.op = "access", !.path = p, !.real = Realpath(p),
                                      !.exc = AccessErrno(p)], "done")
        /\ ret' = [ret EXCEPT ![t] = IF AccessErrno(p) = "none" THEN "ok" ELSE "EACCES"]
        /\ UNCHANGED <<dirent, inodes, handles, tmpdir, staged, serial, platvars, pathvars, faults>>

\* release(path, fh): os.close(fh); the kernel sends it once no request on
\* the descriptor is outstanding
Release(t) ==
    \E f \in Fds :
        /\ Held(f)
        /\ \A u \in Threads : ~(pc[u] # "idle" /\ call[u].fh = f)
        /\ Dispatch(t, [NoCall EXCEPT !.op = "release", !.fh = f], "done")
        /\ handles' = [handles EXCEPT ![f] = Closed]
        /\ inodes' = Collect(dirent, staged, handles', inodes)
        /\ ret' = [ret EXCEPT ![t] = "ok"]
        /\ UNCHANGED <<dirent, tmpdir, staged, serial, platvars, pathvars, faults>>

\* link(target, source): os.link(source, target); link(2) does not follow a
\* symbolic link at the source
Link(t) ==
    \E tgt \in {"n"}, src \in {"a", "l"} :
        /\ tgt # src
        /\ Dispatch(t, [NoCall EXCEPT !.op = "link", !.path = tgt, !.real = src], "done")
        /\ IF dirent[src] = 0 \/ dirent[tgt] # 0 \/ inodes[dirent[src]].kind = "dir"
           THEN /\ dirent' = dirent
                /\ ret' = [ret EXCEPT ![t] = IF dirent[src] = 0 THEN "ENOENT"
                                             ELSE IF dirent[tgt] # 0 THEN "EEXIST"
                                             ELSE "EPERM"]
           ELSE /\ dirent' = [dirent EXCEPT ![tgt] = dirent[src]]
                /\ ret' = [ret EXCEPT ![t] = "ok"]
        /\ UNCHANGED <<inodes, handles, tmpdir, staged, serial, platvars, pathvars, faults>>

\* rename(old, new): os.rename(old, new)
RenameOp(t) ==
    \E old \in {"a", "n"}, new \in {"a", "n"} :
        /\ old # new
        /\ Dispatch(t, [NoCall EXCEPT !.op = "rename", !.path = old, !.real = new], "done")
        /\ LET i == dirent[old]
               j == dirent[new] IN
           IF i = 0
           THEN /\ ret' = [ret EXCEPT ![t] = "ENOENT"]
                /\ UNCHANGED <<dirent, inodes>>
           ELSE IF j # 0 /\ (inodes[i].kind = "dir" \/ inodes[j].kind = "dir")
           THEN /\ ret' = [ret EXCEPT ![t] = IF inodes[i].kind # "dir" THEN "EISDIR"
                                             ELSE IF inodes[j].kind # "dir" THEN "ENOTDIR"
                                             ELSE "ENOTEMPTY"]
                /\ UNCHANGED <<dirent, inodes>>
           ELSE /\ dirent' = IF i = j THEN dirent
                             ELSE [dirent EXCEPT ![new] = i, ![old] = 0]
                /\ inodes' = Collect(dirent', staged, handles, inodes)
                /\ ret' = [ret EXCEPT ![t] = "ok"]
        /\ UNCHANGED <<handles, tmpdir, staged, serial, platvars, pathvars, faults>>

\* unlink(path): os.unlink(path)
UnlinkOp(t) ==
    \E p \in {"a", "n"} :
        /\ Dispatch(t, [NoCall EXCEPT !.op = "unlink", !.path = p, !.real = p], "done")
        /\ LET i == dirent[p] IN
           IF i = 0 \/ inodes[i].kind = "dir"
           THEN /\ ret' = [ret EXCEPT ![t] = IF i = 0 THEN "ENOENT" ELSE "EISDIR"]
                /\ UNCHANGED <<dirent, inodes>>
           ELSE /\ dirent' = [dirent EXCEPT ![p] = 0]
                /\ inodes' = Collect(dirent', staged, handles, inodes)
                /\ ret' = [ret EXCEPT ![t] = "ok"]
        /\ UNCHANGED <<handles, tmpdir, staged, serial, platvars, pathvars, faults>>

\* the reply reaches the caller
Return(t) ==
    /\ pc[t] = "done"
    /\ pc' = [pc EXCEPT ![t] = "idle"]
    /\ call' = [call EXCEPT ![t] = NoCall]
    /\ ret' = [ret EXCEPT ![t] = "none"]
    /\ UNCHANGED <<dirent, inodes, handles, tmpdir, staged, left, serial, platvars, pathvars, faults>>

(***************************************************************************)
(* SafeHardlinkOps._full_path: paths are strings, modelled as sequences of *)
(* characters; os.path.join as posixpath computes it.                      *)
(***************************************************************************)
Chars == {"/", ".", "a"}
\* the virtual paths a request may carry
Paths == UNION {[1..n -> Chars] : n \in 0..MaxPathLen}
\* self.root, the directory the mount mirrors: "/r"
root == <<"/", "r">>
\* no path: _full_path never returns the empty string
NoPath == <<>>

StartsWithSep(s) == Len(s) > 0 /\ s[1] = "/"
EndsWithSep(s) == Len(s) > 0 /\ s[Len(s)] = "/"

\* os.path.join(a, b): an absolute b replaces a
Join(a, b) ==
    IF StartsWithSep(b) THEN b
    ELSE IF a = <<>> \/ EndsWithSep(a) THEN a \o b
    ELSE a \o <<"/">> \o b

\* _full_path(partial): strip one leading separator, join onto self.root
FullPath(p) == Join(root, IF StartsWithSep(p) THEN Tail(p) ELSE p)

\* the components of a path, split at the separators
RECURSIVE SplitAt(_, _)
SplitAt(s, cur) ==
    IF s = <<>> THEN <<cur>>
    ELSE IF Head(s) = "/" THEN <<cur>> \o SplitAt(Tail(s), <<>>)
    ELSE SplitAt(Tail(s), Append(cur, Head(s)))

\* the components of an absolute path once "", "." and ".." are resolved
\* lexically (".." at the top stays at the top)
RECURSIVE Normal(_, _)
Normal(comps, stack) ==
    IF comps = <<>> THEN stack
    ELSE LET c == Head(comps) IN
         IF Len(c) = 0 \/ c = <<".">> THEN Normal(Tail(comps), stack)
         ELSE IF c = <<".", ".">>
         THEN Normal(Tail(comps),
                     IF stack = <<>> THEN stack ELSE SubSeq(stack, 1, Len(stack) - 1))
         ELSE Normal(Tail(comps), Append(stack, c))

\* path q is, lexically, self.root or a path below it
InsideRoot(q) ==
    LET n == Normal(SplitAt(q, <<>>), <<>>)
        r == Normal(SplitAt(root, <<>>), <<>>) IN
    /\ StartsWithSep(q)
    /\ Len(n) >= Len(r)
    /\ SubSeq(n, 1, Len(r)) = r

\* a method calls _full_path on the path of its request
Translate ==
    /\ path = NoPath
    /\ path' = FullPath(partial)
    /\ UNCHANGED <<partial, fusevars, platvars>>

(***************************************************************************)
(* Platform (src/buildstream/_platform/platform.py): the process-wide      *)
(* platform instance.                                                      *)
(***************************************************************************)
\* values of sys.platform, as a name and a version suffix
Hosts == {<<"linux">>, <<"linux", "2">>, <<"darwin">>, <<"freebsd", "12">>, <<"sunos", "5">>}
\* values of BST_FORCE_BACKEND; "unset": os.getenv returns None
Overrides == {"unset", "", "linux", "unix", "Linux", "win32"}

\* the host name compared as a whole: 'linux2' is not taken for Linux
IsExactlyLinux(h) == h = <<"linux">>

\* sys.platform.startswith('linux')
StartsWithLinux(h) == Len(h) > 0 /\ h[1] = "linux"

\* the truth value of os.getenv('BST_FORCE_BACKEND'): None and '' are false
Forced(v) == v \notin {"unset", ""}

\* the backend _create_instance settles on (lines 41-50)
Backend(h, v) ==
    IF Forced(v) THEN v
    ELSE IF StartsWithLinux(h) THEN "linux" ELSE "unix"

\* _create_instance: the instance it installs, "None" when it raises
CreateInstance(h, v) ==
    IF Backend(h, v) = "linux" THEN "Linux"
    ELSE IF Backend(h, v) = "unix" THEN "Unix"
    ELSE "None"

\* get_platform(): resolve on first use, then return the instance
GetPlatform ==
    /\ IF instance = "None"
       THEN /\ instance' = CreateInstance(sys_platform, BST_FORCE_BACKEND)
            /\ got' = IF instance' = "None" THEN "PlatformError" ELSE instance'
       ELSE /\ instance' = instance
            /\ got' = instance
    /\ UNCHANGED <<sys_platform, BST_FORCE_BACKEND, fusevars, pathvars>>

\* the environment of the process changes between two calls
SetEnv ==
    /\ \E v \in Overrides \ {BST_FORCE_BACKEND} : BST_FORCE_BACKEND' = v
    /\ got' = "none"
    /\ UNCHANGED <<sys_platform, instance, fusevars, pathvars>>

(***************************************************************************)
(* Initial state: the shared artifact "a" is hardlinked from another tree  *)
(* ("x"); "l" is a symlink to it; "d" is a directory with a subdirectory.  *)
(***************************************************************************)
InitTree ==
    /\ dirent = [n \in AllNames |->
                    CASE n = "a" -> 1 [] n = "x" -> 1 [] n = "l" -> 2
                      [] n = "d" -> 3 [] OTHER -> 0]
    /\ inodes = [i \in Inodes |->
                    CASE i = 1 -> FileInode(1, "0755")
                      [] i = 2 -> [FreeInode EXCEPT !.kind = "symlink", !.target = "a"]
                      [] i = 3 -> [FreeInode EXCEPT !.kind = "dir", !.sub = 1]
                      [] OTHER -> FreeInode]
    /\ handles = [f \in Fds |-> Closed]
    /\ tmpdir = [t \in Threads |-> FALSE]
    /\ staged = [t \in Threads |-> 0]
    /\ pc = [t \in Threads |-> "idle"]
    /\ call = [t \in Threads |-> NoCall]
    /\ ret = [t \in Threads |-> "none"]
    /\ faults = 0

\* the mount is studied in a process that resolves no platform and on the
\* names of the tree
NoPlatform ==
    /\ sys_platform = <<"linux">>
    /\ BST_FORCE_BACKEND = "unset"
    /\ instance = "None"
    /\ got = "none"

NoTranslation == partial = <<>> /\ path = NoPath

Init == InitTree /\ left = MaxOps /\ serial = FALSE /\ NoPlatform /\ NoTranslation

EnsureCopyStep(t) ==
    \/ Stat(t) \/ Mkdtemp(t) \/ Copy(t) \/ CopyStat(t)
    \/ Unlink(t) \/ Rename(t) \/ Cleanup(t)

FaultStep(t) ==
    \/ MkdtempFault(t) \/ CopyFault(t) \/ UnlinkFault(t) \/ RenameFault(t)

\* the requests that run _ensure_copy
CowStep(t) ==
    \/ ChmodCall(t) \/ ChmodApply(t)
    \/ ChownCall(t) \/ ChownApply(t)
    \/ OpenCall(t) \/ OpenApply(t)
    \/ CreateCall(t) \/ CreateApply(t)
    \/ EnsureCopyStep(t)
    \/ Return(t)

HandleStep(t) ==
    \/ Write(t) \/ Read(t) \/ Lseek(t) \/ WriteFd(t) \/ ReadFd(t)
    \/ Flush(t) \/ Fsync(t) \/ Release(t)

\* the other requests that go by path
PathStep(t) == Truncate(t) \/ Access(t)

NamespaceStep(t) == Link(t) \/ RenameOp(t) \/ UnlinkOp(t)

(***************************************************************************)
(* Spec: requests are served concurrently (spec.md, section 5) and         *)
(* storage calls may fail.                                                 *)
(***************************************************************************)
Next ==
    \E t \in Threads :
        CowStep(t) \/ HandleStep(t) \/ NamespaceStep(t) \/ PathStep(t) \/ FaultStep(t)

Spec == Init /\ [][Next]_vars

(***************************************************************************)
(* SeqSpec: one request at a time and no storage fault: what a single      *)
(* caller sees of a healthy store.                                         *)
(***************************************************************************)
SeqInit == InitTree /\ left = MaxSeqOps /\ serial = TRUE /\ NoPlatform /\ NoTranslation

SeqNext ==
    \E t \in Threads :
        CowStep(t) \/ HandleStep(t) \/ NamespaceStep(t) \/ PathStep(t)

SeqSpec == SeqInit /\ [][SeqNext]_vars

(***************************************************************************)
(* RaceSpec: concurrent requests on a tree that nothing renames, links or  *)
(* unlinks, on a healthy store: the races of _ensure_copy with itself.     *)
(***************************************************************************)
RaceNext ==
    \E t \in Threads : CowStep(t) \/ HandleStep(t)

RaceSpec == Init /\ [][RaceNext]_vars

(***************************************************************************)
(* OpenRaceSpec: as RaceSpec, the callers only opening, creating, reading, *)
(* writing and releasing.                                                  *)
(***************************************************************************)
OpenRaceNext ==
    \E t \in Threads :
        \/ OpenCall(t) \/ OpenApply(t)
        \/ CreateCall(t) \/ CreateApply(t)
        \/ EnsureCopyStep(t)
        \/ Return(t)
        \/ HandleStep(t)

OpenRaceSpec == Init /\ [][OpenRaceNext]_vars

(***************************************************************************)
(* HandleRaceSpec: concurrent requests on descriptors: a caller opens a    *)
(* file and further requests on the descriptor are served side by side.    *)
(***************************************************************************)
HandleRaceInit ==
    InitTree /\ left = MaxSeqOps /\ serial = FALSE /\ NoPlatform /\ NoTranslation

HandleRaceNext ==
    \E t \in Threads :
        \/ OpenCall(t) \/ OpenApply(t)
        \/ EnsureCopyStep(t)
        \/ Return(t)
        \/ HandleStep(t)

HandleRaceSpec == HandleRaceInit /\ [][HandleRaceNext]_vars

(***************************************************************************)
(* CowSeqSpec: the requests that run _ensure_copy, and requests on the     *)
(* descriptors they return, one at a time on a healthy store: nothing else *)
(* acts on the tree.                                                       *)
(***************************************************************************)
CowSeqNext ==
    \E t \in Threads : CowStep(t) \/ HandleStep(t)

CowSeqSpec == SeqInit /\ [][CowSeqNext]_vars

(***************************************************************************)
(* PathSpec: _full_path applied to every virtual path of the bounded set.  *)
(***************************************************************************)
PathInit ==
    /\ InitTree /\ left = 0 /\ serial = TRUE /\ NoPlatform
    /\ partial \in Paths
    /\ path = NoPath

PathNext == Translate

PathSpec == PathInit /\ [][PathNext]_vars

(***************************************************************************)
(* PlatformSpec: get_platform() on every host, under every override, the   *)
(* environment changing between calls.                                     *)
(***************************************************************************)
PlatformInit ==
    /\ InitTree /\ left = 0 /\ serial = TRUE /\ NoTranslation
    /\ sys_platform \in Hosts
    /\ BST_FORCE_BACKEND \in Overrides
    /\ instance = "None"
    /\ got = "none"

PlatformNext == GetPlatform \/ SetEnv

PlatformSpec == PlatformInit /\ [][PlatformNext]_vars

(***************************************************************************)
(* Properties.                                                             *)
(***************************************************************************)
CowOps == {"chmod", "chown", "open", "create"}

\* thread t has privatized (or tried to privatize) a shared regular file: the
\* identity check found a regular file with st_nlink > 1
SharedFileSeen(t) ==
    /\ call[t].op \in CowOps
    /\ call[t].orig # 0
    /\ inodes[call[t].orig].kind = "file"

\* C1: the first mutating request (chmod, chown, open for writing, create) on
\* a regular file with link count > 1 leaves the path on an inode of link
\* count 1 that holds the bytes and, unless chmod changed it, the mode the
\* shared inode had, and every other name of the shared inode still names it,
\* with content and mode unchanged.
C1_FirstMutationPrivatizes ==
    \A t \in Threads :
        (SharedFileSeen(t) /\ pc[t] = "done" /\ ret[t] = "ok") =>
            LET c == call[t]
                i == dirent[c.real] IN
            /\ i # 0
            /\ i # c.orig
            /\ inodes[i].kind = "file"
            /\ NLink(i) = 1
            /\ inodes[i].data = c.odata
            /\ inodes[i].mode = IF c.op = "chmod" THEN c.arg ELSE c.omode
            /\ \A n \in c.others : dirent[n] = c.orig
            /\ inodes[c.orig].data = c.odata
            /\ inodes[c.orig].mode = c.omode

\* C2: no step changes the bytes of a regular file whose link count is > 1
\* at that moment (a write through a descriptor opened while the file was
\* private, after link() has made it shared, included).
C2_NoWriteToSharedInode ==
    [][\A i \in Inodes :
          (inodes[i].kind = "file" /\ NLink(i) > 1) =>
              inodes'[i].data = inodes[i].data]_vars

\* C3: while a privatization of real path P is under way, P names an object,
\* and never one that is still being copied.
C3_PathAlwaysResolves ==
    \A t \in Threads :
        InCopy(t) =>
            /\ dirent[call[t].real] # 0
            /\ \A u \in Threads :
                  ~(pc[u] \in {"copy", "copystat"} /\ staged[u] = dirent[call[t].real])

\* C4: concurrent requests on one shared real path make one physical copy:
\* never do two threads hold a staged copy for the same path.
C4_OnePrivatizationPerPath ==
    \A t, u \in Threads :
        (t # u /\ staged[t] # 0 /\ staged[u] # 0) => call[t].real # call[u].real

\* C5: when callers only open, create, read, write and release, no open for
\* writing and no create of the existing file fails with not-found, and once
\* no request is in progress every descriptor open for writing is on the
\* inode its path names.
C5_NoLostUpdate ==
    /\ \A t \in Threads :
          (pc[t] = "done" /\ call[t].op \in {"open", "create"}
                          /\ call[t].flags # O_RDONLY
                          /\ call[t].path \in {"a", "l"}) => ret[t] # "ENOENT"
    /\ (\A t \in Threads : pc[t] \in {"idle", "done"}) =>
          \A f \in Fds :
             (handles[f].ino # 0 /\ Writable(handles[f].flags)) =>
                 dirent[handles[f].name] = handles[f].ino

\* the steps of _ensure_copy at which a privatization can fail
CopySteps == {"mkdtemp", "copy", "unlink", "rename"}

\* C6: a request whose privatization failed (at any step after the identity
\* check) is aborted: it never returns success.
C6_FailurePropagates ==
    \A t \in Threads :
        (pc[t] = "done" /\ call[t].op \in CowOps /\ call[t].failedAt \in CopySteps)
            => ret[t] # "ok"

\* C7: when the privatization of a shared file at P fails (the only request
\* ever dispatched), P still names the original inode, with every link of
\* it in place.
C7_FailureLeavesOriginal ==
    \A t \in Threads :
        (left = MaxOps - 1 /\ call[t].orig # 0 /\ call[t].failedAt \in CopySteps
                           /\ pc[t] \in {"cleanup", "apply", "done"}) =>
            /\ dirent[call[t].real] = call[t].orig
            /\ \A n \in call[t].others : dirent[n] = call[t].orig

\* the request thread t is serving in a step that moves it
Serving(t) == IF pc[t] = "idle" THEN call'[t] ELSE call[t]

\* a request that only reads: open with O_RDONLY, read, release
ReadOnlyRequest(c) ==
    \/ c.op = "open" /\ c.flags = O_RDONLY
    \/ c.op \in {"read", "release"}

\* C8: no step of an open with read-only flags, of a read or of a release
\* changes a directory entry or the scratch directory (so no link count
\* changes), and a read-only open never enters _ensure_copy.
C8_ReadOnlyOpenKeepsLinks ==
    [][\A t \in Threads :
          (pc'[t] # pc[t] /\ ReadOnlyRequest(Serving(t))) =>
              /\ UNCHANGED <<dirent, staged, tmpdir>>
              /\ pc'[t] \in {"apply", "lseek", "transfer", "done", "idle"}]_vars

\* a read-only open of the shared file has returned a descriptor, and the
\* file's link count is still 2
C8_Witness ==
    \E t \in Threads :
        /\ pc[t] = "done" /\ call[t].op = "open" /\ call[t].flags = O_RDONLY
        /\ ret[t] = "ok"
        /\ handles[call[t].fh].ino = dirent["a"]
        /\ NLink(dirent["a"]) = 2

DirAt(p) == dirent[p] # 0 /\ inodes[dirent[p]].kind = "dir"

\* C9: when the identity check of _ensure_copy finds a directory, whatever
\* its link count, the routine returns at once and nothing is created or
\* changed; and no copy, unlink or rename step of the routine touches a path
\* that names a directory.
C9_DirectoryNeverPrivatized ==
    [][\A t \in Threads :
          (pc'[t] # pc[t] /\ DirAt(call[t].real)) =>
              /\ pc[t] = "stat" =>
                    /\ pc'[t] = "apply"
                    /\ UNCHANGED <<dirent, inodes, staged, tmpdir>>
              /\ pc[t] \in {"copy", "copystat", "unlink", "rename"} =>
                    UNCHANGED <<dirent, inodes, staged>>]_vars

\* a chmod of the directory, whose link count is 3, has been applied to the
\* directory itself
C9_Witness ==
    \E t \in Threads :
        /\ pc[t] = "done" /\ call[t].op = "chmod" /\ call[t].path = "d"
        /\ ret[t] = "ok"
        /\ DirAt("d") /\ NLink(dirent["d"]) = 3
        /\ inodes[dirent["d"]].mode = "0600"

\* C10: a create whose identity check finds no file returns from
\* _ensure_copy at once, with not-found recorded and nothing touched; and a
\* create that finds no file when it opens makes a new inode at the real
\* path, leaving every other entry and every other inode as it was.
C10_CreateNewSkipsCopy ==
    [][\A t \in Threads :
          (pc'[t] # pc[t] /\ call[t].op = "create") =>
              /\ (pc[t] = "stat" /\ dirent[call[t].real] = 0) =>
                    /\ pc'[t] = "apply"
                    /\ call'[t].failedAt = "stat"
                    /\ UNCHANGED <<dirent, inodes, handles, staged, tmpdir>>
              /\ (pc[t] = "apply" /\ dirent[Realpath(call[t].path)] = 0
                                  /\ ret'[t] = "ok") =>
                    LET r == Realpath(call[t].path)
                        j == dirent'[r] IN
                    /\ j # 0 /\ inodes[j].kind = "free"
                    /\ inodes'[j] = FileInode(0, call[t].arg)
                    /\ handles'[call'[t].fh].ino = j
                    /\ \A n \in AllNames \ {r} : dirent'[n] = dirent[n]
                    /\ \A i \in Inodes \ {j} : inodes'[i] = inodes[i]
                    /\ UNCHANGED <<staged, tmpdir>>]_vars

\* a create of the missing name "n" has returned a descriptor on a new file,
\* after an identity check that reported not-found
C10_Witness ==
    \E t \in Threads :
        /\ pc[t] = "done" /\ call[t].op = "create" /\ call[t].path = "n"
        /\ call[t].failedAt = "stat" /\ ret[t] = "ok"
        /\ dirent["n"] # 0 /\ handles[call[t].fh].ino = dirent["n"]
        /\ NLink(dirent["n"]) = 1

\* C11: whenever thread t is outside _ensure_copy's with block (the routine
\* has returned or raised, or has not been entered), the scratch directory
\* holds no temporary directory and no staged file of t.
C11_StagingScoped ==
    \A t \in Threads :
        ~InCopy(t) => (~tmpdir[t] /\ staged[t] = 0)

\* a privatization that failed at its rename, with a staged copy in the
\* scratch directory, has returned: the error reached the caller and the
\* scratch directory is empty
C11_Witness ==
    \E t \in Threads :
        /\ pc[t] = "done" /\ call[t].failedAt = "rename" /\ ret[t] = "EIO"
        /\ ~tmpdir[t] /\ staged[t] = 0

\* C12: a descriptor that is open stays open, on the same object and with
\* the same flags, through every step except the step of a release request
\* for it, which closes it; no step of a read, write, flush, fsync or
\* truncate closes or replaces it.
C12_OnlyReleaseCloses ==
    [][\A f \in Fds :
          handles[f].ino # 0 =>
              \/ /\ handles'[f].ino = handles[f].ino
                 /\ handles'[f].flags = handles[f].flags
                 /\ handles'[f].name = handles[f].name
              \/ /\ handles'[f] = Closed
                 /\ \E t \in Threads :
                       /\ pc[t] = "idle" /\ pc'[t] = "done"
                       /\ call'[t].op = "release" /\ call'[t].fh = f]_vars

\* a descriptor that was written through has been released and is closed
C12_Witness ==
    \E t \in Threads :
        /\ pc[t] = "done" /\ call[t].op = "release" /\ ret[t] = "ok"
        /\ handles[call[t].fh] = Closed
        /\ \E i \in Inodes : inodes[i].kind = "file" /\ inodes[i].data = 2

\* C13: the real path _full_path returns for a virtual path, whatever its
\* components and however many separators it begins with, is lexically
\* self.root or a path below it.
C13_PathInsideRoot ==
    path # NoPath => InsideRoot(path)

\* C14: a request that fails reports the error the storage layer produced:
\* an access request fails with what os.access failed with, and a request
\* that _ensure_copy aborts fails with the error _ensure_copy met.
C14_ErrorsUnmodified ==
    \A t \in Threads :
        pc[t] = "done" =>
            /\ (call[t].op = "access" /\ ret[t] # "ok") => ret[t] = call[t].exc
            /\ (call[t].op \in CowOps /\ ~Swallowed(call[t].exc)) => ret[t] = call[t].exc

\* the hosts that are Linux, whatever version suffix sys.platform carries
LinuxHosts == {<<"linux">>, <<"linux", "2">>}

\* C15: a resolution (get_platform with no instance installed) installs and
\* returns the Linux platform when the override names 'linux', or when no
\* override is set (the variable absent or empty) and the host is Linux; the
\* Unix platform when the override names 'unix', or when none is set and
\* the host is not Linux; and under any other override it raises
\* PlatformError and leaves Platform._instance as it was.
C15_PlatformResolution ==
    [][(instance = "None" /\ got' # "none") =>
          LET v == BST_FORCE_BACKEND
              want == IF v \notin {"unset", ""} THEN v
                      ELSE IF sys_platform \in LinuxHosts THEN "linux" ELSE "unix" IN
          /\ want = "linux" => (instance' = "Linux" /\ got' = "Linux")
          /\ want = "unix" => (instance' = "Unix" /\ got' = "Unix")
          /\ want \notin {"linux", "unix"} =>
                (got' = "PlatformError" /\ instance' = instance)]_vars

\* on a Linux host the override named an unknown backend: the resolution
\* raised PlatformError and no instance is installed
C15_Witness ==
    /\ sys_platform = <<"linux", "2">>
    /\ BST_FORCE_BACKEND = "win32"
    /\ got = "PlatformError"
    /\ instance = "None"

\* C16: a truncate request never changes the content of a regular file
\* whose link count is > 1 when the request arrives: what the other names of
\* the inode show stays as it was.
C16_TruncatePrivatizes ==
    [][\A t \in Threads :
          (pc[t] = "idle" /\ pc'[t] # "idle" /\ call'[t].op = "truncate") =>
              \A n \in AllNames :
                  (dirent[n] # 0 /\ inodes[dirent[n]].kind = "file"
                                 /\ NLink(dirent[n]) > 1) =>
                      /\ dirent'[n] = dirent[n]
                      /\ inodes'[dirent[n]].data = inodes[dirent[n]].data]_vars

\* path p names a symbolic link that resolves to another path
LinkElsewhere(p) ==
    /\ dirent[p] # 0
    /\ inodes[dirent[p]].kind = "symlink"
    /\ Realpath(p) # p

\* C17, as stated: a chmod on a symbolic link checks and privatizes the
\* path itself, and the entry of the file the link resolves to is left as
\* it was.
C17_ChmodNoDereference ==
    [][\A t \in Threads :
          (pc'[t] # pc[t] /\ Serving(t).op = "chmod" /\ LinkElsewhere(Serving(t).path)) =>
              /\ Serving(t).real = Serving(t).path
              /\ dirent'[Realpath(Serving(t).path)] = dirent[Realpath(Serving(t).path)]]_vars

\* C17, amended: a chmod on a symbolic link checks and privatizes the path
\* the link resolves to: the request takes the resolved path as the path to
\* check, no step of it changes the link's entry or the link, and the only
\* entry a step may replace is the resolved path's.
C17_ChmodDereferences ==
    [][\A t \in Threads :
          (pc'[t] # pc[t] /\ Serving(t).op = "chmod") =>
              LET c == Serving(t) IN
              /\ (pc[t] = "idle" /\ LinkElsewhere(c.path)) => c.real = Realpath(c.path)
              /\ c.real # c.path =>
                    /\ dirent'[c.path] = dirent[c.path]
                    /\ (dirent[c.path] # 0 /\ inodes[dirent[c.path]].kind = "symlink") =>
                          inodes'[dirent[c.path]] = inodes[dirent[c.path]]
                    /\ \A n \in AllNames \ {c.real} : dirent'[n] = dirent[n]]_vars

\* a chmod through the link l has returned: the shared file a that l
\* resolves to was replaced by a private copy that has the new mode, the
\* other tree's name x keeps the old inode and mode, and l is still the link
C17_Witness ==
    \E t \in Threads :
        /\ pc[t] = "done" /\ call[t].op = "chmod" /\ call[t].path = "l"
        /\ ret[t] = "ok"
        /\ dirent["a"] # dirent["x"] /\ NLink(dirent["a"]) = 1
        /\ inodes[dirent["a"]].mode = "0600"
        /\ inodes[dirent["x"]].mode = "0755"
        /\ dirent["l"] = 2 /\ inodes[2].kind = "symlink"

\* C18: a read or write that succeeded transferred its bytes at the offset
\* its request asked for, whatever other requests were served on the same
\* descriptor meanwhile.
C18_TransferAtRequestedOffset ==
    \A t \in Threads :
        (pc[t] = "done" /\ call[t].op \in {"read", "write"} /\ ret[t] = "ok") =>
            call[t].at = call[t].offset

\* the path a no longer names the inode shared with the other tree: in
\* CowSeqSpec, where nothing unlinks, renames or links, it was privatized
PrivatizedA ==
    /\ dirent["a"] # 0
    /\ dirent["a"] # dirent["x"]

\* C19: once a has been privatized, the identity check of any later request
\* on it finds a link count <= 1 and returns at once: no entry, inode,
\* descriptor, staged file or temporary directory changes.
C19_PrivatizationIdempotent ==
    [][\A t \in Threads :
          (pc[t] = "stat" /\ pc'[t] # "stat" /\ call[t].real = "a" /\ PrivatizedA) =>
              /\ NLink(dirent["a"]) <= 1
              /\ pc'[t] = "apply"
              /\ UNCHANGED <<dirent, inodes, handles, tmpdir, staged>>]_vars

\* the identity check of a second request on the privatized a has returned
\* without a copy: a is still the private copy, with the artifact's bytes
C19_Witness ==
    \E t \in Threads :
        /\ pc[t] = "apply" /\ call[t].real = "a" /\ call[t].orig = 0
        /\ call[t].failedAt = "none"
        /\ PrivatizedA
        /\ NLink(dirent["a"]) = 1 /\ NLink(dirent["x"]) = 1
        /\ inodes[dirent["a"]].data = 1

\* C20: the system call that ends a request acts on the object at the path
\* _ensure_copy checked: chmod sets the mode of the inode at the resolved
\* path and of no other, leaving a link it came through in place; chown
\* checks the path itself and sets the owner of the inode at it and of no
\* other; an open for writing or a create returns a descriptor on the inode
\* at the resolved path.
C20_PrivatizedIsMutated ==
    [][\A t \in Threads :
          (pc[t] = "apply" /\ pc'[t] = "done" /\ ret'[t] = "ok") =>
              LET c == call[t]
                  i == dirent[c.real] IN
              /\ c.op = "chmod" =>
                    /\ i # 0 /\ inodes'[i].mode = c.arg
                    /\ \A j \in Inodes \ {i} : inodes'[j] = inodes[j]
                    /\ dirent' = dirent
              /\ c.op = "chown" =>
                    /\ c.real = c.path
                    /\ i # 0 /\ inodes'[i].uid = c.arg
                    /\ \A j \in Inodes \ {i} : inodes'[j] = inodes[j]
                    /\ dirent' = dirent
              /\ (c.op = "create" \/ (c.op = "open" /\ WriteCapable(c.flags))) =>
                    /\ handles'[call'[t].fh].ino = dirent'[c.real]
                    /\ \A n \in AllNames \ {c.real} : dirent'[n] = dirent[n]]_vars
====
